---- MODULE Spec2Model ----
(***************************************************************************)
(* Model of multifit/datasets/create_twittertext.py.                       *)
(*                                                                         *)
(*   - get_texts: a generator over the source records (forward-only).      *)
(*   - write_tweettext: one write pass draining the generator into a file  *)
(*     until the source is exhausted or the token budget is exceeded.      *)
(*   - main: three small-tier passes, each copied to the large and all     *)
(*     tiers, then an appending pass on the large train file, a copy to    *)
(*     the all train file, and an unbounded appending pass on it.          *)
(*   - clean_line_mod: the normaliser, modelled on strings represented as  *)
(*     sequences of one-character strings.                                 *)
(*                                                                         *)
(* A source record is [wellformed, tokens]: wellformed says whether        *)
(* json.loads / get_text_from_tweet succeed on the line, tokens is the     *)
(* list tokenized.split(' ') of its cleaned, tokenized text (the Moses     *)
(* tokenizer is external; "" stands for an empty piece of the split).      *)
(* A file is the sequence of its lines; a line written by a pass is        *)
(* identified by the index in src of the record it was produced from.      *)
(***************************************************************************)
EXTENDS Integers, Sequences, FiniteSets, TLC

VARIABLES
    src,              \* the records of the input directory, in reading order
    tokens_min,       \* args.tokens_min / num_tokens_tweet_min
    pos,              \* text_iter: number of records the generator has read
    gen,              \* text_iter: "suspended" or "finished"
    files,            \* the file system: name -> [exists, lines]
    pc,               \* position of main (or "call" for a lone write pass)
    split,            \* index of main's loop over splits
    f_out,            \* the file the running pass holds open, or Closed
    file_path,        \* write_tweettext: file_path
    num_tokens,       \* write_tweettext: num_tokens (None or <<budget>>)
    mode,             \* write_tweettext: mode
    total_num_tokens, \* write_tweettext: total_num_tokens
    i,                \* write_tweettext: i
    cnt,              \* enumerate's counter
    summary,          \* the last summary line printed (line 114)
    written,          \* history: records written by the current/last pass
    consumed,         \* history: per pass, the records it took from text_iter
    openContent,      \* history: lines of the destination right after open
    line,             \* normaliser: the input string
    cleaned,          \* normaliser: clean_line_mod(line)
    recleaned,        \* normaliser: clean_line_mod(cleaned)
    npc               \* normaliser: "raw", "once", "twice", or "off"

passVars == <<f_out, file_path, num_tokens, mode, total_num_tokens, i, cnt>>
histVars == <<written, consumed, openContent>>
normVars == <<line, cleaned, recleaned, npc>>
vars == <<src, tokens_min, pos, gen, files, pc, split, passVars, summary,
          histVars, normVars>>

----------------------------------------------------------------------------
(* Bounds of the model *)

MaxSrc == 6
MaxPassSrc == 4
SmlTrainBudget == 3
SmlValidBudget == 2
SmlTestBudget == 2
LrgExtraBudget == 4
MinSmall == 2
MaxChunks == 4

(* Program constant: default of num_tokens_tweet_min *)
DefaultTokensMin == 10

----------------------------------------------------------------------------
(* Values *)

None == <<>>
Some(b) == <<b>>
Closed == <<>>
NoSummary == <<>>

Tiers == {"sml", "lrg", "all"}
splits == <<"train", "valid", "test">>
FileNames == {<<t, splits[s]>> : t \in Tiers, s \in 1..3}

\* token_nums of main (2000000, 200000, 200000), scaled down to the size of
\* the model's sources
token_nums == <<SmlTrainBudget, SmlValidBudget, SmlTestBudget>>

\* the budget of the appending pass on the large train file (98000000 scaled)
LrgBudget == Some(LrgExtraBudget)

\* the budget of the final pass on the all train file
FinalBudgetBounded == Some(LrgExtraBudget)
FinalBudget == None

Toks(n) == [j \in 1..n |-> "w"]
Text(t) == [wellformed |-> TRUE, tokens |-> t]
Bad == [wellformed |-> FALSE, tokens |-> <<>>]

RecPool == {Text(Toks(1)), Text(<<"w", "", "w">>), Text(Toks(3)), Bad}

RECURSIVE SeqsUpTo(_, _)
SeqsUpTo(S, n) ==
    IF n = 0 THEN {<<>>}
    ELSE LET shorter == SeqsUpTo(S, n - 1)
         IN  shorter \cup {Append(q, x) : q \in {r \in shorter : Len(r) = n - 1}, x \in S}

NoFile == [exists |-> FALSE, lines |-> <<>>]
File(ls) == [exists |-> TRUE, lines |-> ls]

----------------------------------------------------------------------------
(* write_tweettext: the pure parts *)

\* tokens = [token for token in tokens if token]
NonEmpty(tokens) == SelectSeq(tokens, LAMBDA t : t # "")

\* num_tokens_tweet += len(tokens) + 1
NumTokensTweet(tokens) == Len(NonEmpty(tokens)) + 1

\* if num_tokens_tweet < num_tokens_tweet_min: continue
RejectedAtThreshold(n, min) == n <= min
Rejected(n, min) == n < min

\* total_num_tokens += num_tokens_tweet + 1
AddedSingle(n) == n
Added(n) == n + 1

\* if num_tokens is not None and total_num_tokens > num_tokens: break
BudgetReached(total, budget) == budget # None /\ total >= budget[1]
BudgetExceeded(total, budget) == budget # None /\ total > budget[1]

\* open(file_path, mode): 'w' truncates, 'a' keeps what is there
OpenTruncating(f, m) == File(<<>>)
Open(f, m) == IF m = "w" \/ ~f.exists THEN File(<<>>) ELSE File(f.lines)

\* for i, text in enumerate(text_iter): the generator object is shared, a new
\* pass resumes it where the previous one left it
ResumeRestarted(p) == 0
Resume(p) == p

\* an exception raised by next(text_iter) is caught nowhere: it leaves
\* write_tweettext and main
PropagateSkipped(p) == p
Propagate(p) == "failed"

\* print('{}. # documents: {:,}. # tokens: {:,}.'.format(file_path, i, total_num_tokens))
Summary(path, idx, total) == [path |-> path, documents |-> idx, tokens |-> total]

----------------------------------------------------------------------------
(* main: where each call of write_tweettext gets its arguments *)

SmlFile(s) == <<"sml", splits[s]>>
LrgFile(s) == <<"lrg", splits[s]>>
AllFile(s) == <<"all", splits[s]>>

CallArgs ==
    CASE pc = "sml_write" -> [path |-> SmlFile(split), budget |-> Some(token_nums[split]), mode |-> "w"]
      [] pc = "lrg_write" -> [path |-> LrgFile(1), budget |-> LrgBudget, mode |-> "a"]
      [] pc = "all_write" -> [path |-> AllFile(1), budget |-> FinalBudget, mode |-> "a"]
      [] OTHER -> [path |-> file_path, budget |-> num_tokens, mode |-> mode]

\* where main continues after a call of write_tweettext returns
AfterWrite(p) ==
    CASE p = "sml_write" -> "copy_lrg"
      [] p = "lrg_write" -> "copy_train"
      [] OTHER -> "done"

InPass == f_out # Closed
CallSites == {"sml_write", "lrg_write", "all_write", "call"}

----------------------------------------------------------------------------
(* Initial states *)

NormOff == line = <<>> /\ cleaned = <<>> /\ recleaned = <<>> /\ npc = "off"

PassInit ==
    /\ pos = 0 /\ gen = "suspended"
    /\ f_out = Closed
    /\ total_num_tokens = 0 /\ i = 0 /\ cnt = 0
    /\ summary = NoSummary
    /\ written = <<>> /\ consumed = <<>> /\ openContent = <<>>
    /\ NormOff

\* main(args): the output directories are new, text_iter = get_texts(input_path)
Init ==
    /\ src \in SeqsUpTo(RecPool, MaxSrc)
    /\ tokens_min \in {MinSmall, MinSmall + 1}
    /\ files = [f \in FileNames |-> NoFile]
    /\ pc = "sml_write" /\ split = 1
    /\ file_path = SmlFile(1) /\ num_tokens = None /\ mode = "w"
    /\ PassInit

----------------------------------------------------------------------------
(* write_tweettext *)

\* lines 90-93: the call, up to the opening of the destination
Call ==
    /\ pc \in CallSites /\ ~InPass
    /\ LET a == CallArgs
           opened == Open(files[a.path], a.mode)
       IN  /\ file_path' = a.path
           /\ num_tokens' = a.budget
           /\ mode' = a.mode
           /\ files' = [files EXCEPT ![a.path] = opened]
           /\ openContent' = opened.lines
           /\ f_out' = a.path
    /\ total_num_tokens' = 0 /\ i' = 0 /\ cnt' = 0
    /\ pos' = Resume(pos)
    /\ written' = <<>>
    /\ consumed' = Append(consumed, <<>>)
    /\ UNCHANGED <<src, tokens_min, gen, pc, split, summary, normVars>>

HasNext == gen = "suspended" /\ pos < Len(src)
Taken == [consumed EXCEPT ![Len(consumed)] = Append(@, pos + 1)]

\* lines 94-105: a record below the threshold is skipped
Reject ==
    /\ InPass /\ HasNext
    /\ src[pos + 1].wellformed
    /\ Rejected(NumTokensTweet(src[pos + 1].tokens), tokens_min)
    /\ pos' = pos + 1
    /\ i' = cnt /\ cnt' = cnt + 1
    /\ consumed' = Taken
    /\ UNCHANGED <<src, tokens_min, gen, files, pc, split, f_out, file_path,
                   num_tokens, mode, total_num_tokens, summary, written,
                   openContent, normVars>>

\* lines 94-113: a record is written and the budget is not exceeded (the
\* progress line printed every 10,000 records changes no state)
Accept ==
    /\ InPass /\ HasNext
    /\ src[pos + 1].wellformed
    /\ LET n == NumTokensTweet(src[pos + 1].tokens)
       IN  /\ ~Rejected(n, tokens_min)
           /\ ~BudgetExceeded(total_num_tokens + Added(n), num_tokens)
           /\ total_num_tokens' = total_num_tokens + Added(n)
    /\ files' = [files EXCEPT ![f_out].lines = Append(@, pos + 1)]
    /\ written' = Append(written, pos + 1)
    /\ pos' = pos + 1
    /\ i' = cnt /\ cnt' = cnt + 1
    /\ consumed' = Taken
    /\ UNCHANGED <<src, tokens_min, gen, pc, split, f_out, file_path,
                   num_tokens, mode, summary, openContent, normVars>>

\* lines 94-115: a record is written, the budget is exceeded: break, the file
\* is closed, the summary printed, and the call returns
AcceptBreak ==
    /\ InPass /\ HasNext
    /\ src[pos + 1].wellformed
    /\ LET n == NumTokensTweet(src[pos + 1].tokens)
       IN  /\ ~Rejected(n, tokens_min)
           /\ BudgetExceeded(total_num_tokens + Added(n), num_tokens)
           /\ total_num_tokens' = total_num_tokens + Added(n)
           /\ summary' = Summary(file_path, cnt, total_num_tokens + Added(n))
    /\ files' = [files EXCEPT ![f_out].lines = Append(@, pos + 1)]
    /\ written' = Append(written, pos + 1)
    /\ pos' = pos + 1
    /\ i' = cnt /\ cnt' = cnt + 1
    /\ consumed' = Taken
    /\ f_out' = Closed
    /\ pc' = AfterWrite(pc)
    /\ UNCHANGED <<src, tokens_min, gen, split, file_path, num_tokens, mode,
                   openContent, normVars>>

\* lines 94, 114-115: text_iter is exhausted: the loop ends, the file is
\* closed, the summary printed, and the call returns
Exhausted ==
    /\ InPass
    /\ ~HasNext
    /\ gen' = "finished"
    /\ summary' = Summary(file_path, i, total_num_tokens)
    /\ f_out' = Closed
    /\ pc' = AfterWrite(pc)
    /\ UNCHANGED <<src, tokens_min, pos, files, split, file_path, num_tokens,
                   mode, total_num_tokens, i, cnt, histVars, normVars>>

\* lines 84-85 under line 94: json.loads or get_text_from_tweet raises in
\* the generator; the with block closes the file and the exception leaves
\* write_tweettext and main
ParseFail ==
    /\ InPass /\ HasNext
    /\ ~src[pos + 1].wellformed
    /\ pos' = pos + 1
    /\ gen' = "finished"
    /\ consumed' = Taken
    /\ pc' = Propagate(pc)
    /\ f_out' = Closed
    /\ UNCHANGED <<src, tokens_min, files, split, file_path, num_tokens, mode,
                   total_num_tokens, i, cnt, summary, written, openContent,
                   normVars>>

----------------------------------------------------------------------------
(* main: the copies *)

\* copyfile(src, dst)
CopyFile(fs, from, to) == [fs EXCEPT ![to] = File(fs[from].lines)]

\* line 144: copyfile(sml_file_path, lrg_file_path)
CopyToLrg ==
    /\ pc = "copy_lrg"
    /\ files' = CopyFile(files, SmlFile(split), LrgFile(split))
    /\ pc' = "copy_all"
    /\ UNCHANGED <<src, tokens_min, pos, gen, split, passVars, summary,
                   histVars, normVars>>

\* line 145: copyfile(sml_file_path, all_file_path), and the loop continues
CopyToAll ==
    /\ pc = "copy_all"
    /\ files' = CopyFile(files, SmlFile(split), AllFile(split))
    /\ IF split < Len(splits)
       THEN split' = split + 1 /\ pc' = "sml_write"
       ELSE split' = split /\ pc' = "lrg_write"
    /\ UNCHANGED <<src, tokens_min, pos, gen, passVars, summary, histVars,
                   normVars>>

\* line 151: copyfile(lrg_tweets_train, all_tweets_train)
CopyTrain ==
    /\ pc = "copy_train"
    /\ files' = CopyFile(files, LrgFile(1), AllFile(1))
    /\ pc' = "all_write"
    /\ UNCHANGED <<src, tokens_min, pos, gen, split, passVars, summary,
                   histVars, normVars>>

Next ==
    \/ Call
    \/ Reject
    \/ Accept
    \/ AcceptBreak
    \/ Exhausted
    \/ ParseFail
    \/ CopyToLrg
    \/ CopyToAll
    \/ CopyTrain

Spec == Init /\ [][Next]_vars

\* main runs to its end: no step of it waits for anything
FairSpec == Spec /\ WF_vars(Next)

----------------------------------------------------------------------------
(* One call of write_tweettext on its own, over its arguments *)

\* records whose accounted lengths (non-empty tokens + 1) are 12, 5, 20, 8, 15
ScenarioSrc == <<Text(Toks(11)), Text(Toks(4)), Text(Toks(19)), Text(Toks(7)), Text(Toks(14))>>
ScenarioBudget == Some(30)

InitPass ==
    /\ src \in SeqsUpTo(RecPool, MaxPassSrc) \cup {ScenarioSrc}
    /\ tokens_min \in {MinSmall, MinSmall + 1, DefaultTokensMin}
    /\ num_tokens \in {None, Some(SmlTrainBudget), Some(LrgExtraBudget), ScenarioBudget}
    /\ mode \in {"w", "a"}
    /\ file_path = SmlFile(1)
    /\ \E old \in {NoFile, File(<<0>>)} :
         files = [f \in FileNames |-> IF f = file_path THEN old ELSE NoFile]
    /\ pc = "call" /\ split = 1
    /\ PassInit

NextPass ==
    \/ Call
    \/ Reject
    \/ Accept
    \/ AcceptBreak
    \/ Exhausted
    \/ ParseFail

SpecPass == InitPass /\ [][NextPass]_vars

----------------------------------------------------------------------------
(* The normaliser.  A string is the sequence of its characters. *)

AsciiLetters ==
    {"a", "b", "c", "d", "e", "f", "g", "h", "i", "j", "k", "l", "m",
     "n", "o", "p", "q", "r", "s", "t", "u", "v", "w", "x", "y", "z",
     "A", "B", "C", "D", "E", "F", "G", "H", "I", "J", "K", "L", "M",
     "N", "O", "P", "Q", "R", "S", "T", "U", "V", "W", "X", "Y", "Z"}
Digits == {"0", "1", "2", "3", "4", "5", "6", "7", "8", "9"}

\* \w
WordChars == AsciiLetters \cup Digits \cup {"_"}

\* \s
Whitespace == {" ", "\n", "\t", "\r", "\f"}

\* the range $-_ of a character class: the characters 0x24 to 0x5F
DollarToUnderscore ==
    {"$", "%", "&", "'", "(", ")", "*", "+", ",", "-", ".", "/", ":", ";",
     "<", "=", ">", "?", "@", "[", "\\", "]", "^", "_"}
      \cup Digits
      \cup {"A", "B", "C", "D", "E", "F", "G", "H", "I", "J", "K", "L", "M",
            "N", "O", "P", "Q", "R", "S", "T", "U", "V", "W", "X", "Y", "Z"}

\* (?:[a-zA-Z]|[0-9]|[$-_@.&+]|[!*\(\), ]|(?:%[0-9a-fA-F][0-9a-fA-F])): one
\* character of the first four alternatives; "%" is in $-_, so the fifth
\* alternative never decides a match
UrlChars ==
    AsciiLetters \cup Digits \cup DollarToUnderscore \cup {"@", ".", "&", "+"}
      \cup {"!", "*", "(", ")", ",", " "}

RTMarker == <<"R", "T", " ">>
Http == <<"h", "t", "t", "p", ":", "/", "/">>
Https == <<"h", "t", "t", "p", "s", ":", "/", "/">>
PicHost == <<"p", "i", "c", ".", "t", "w", "i", "t", "t", "e", "r", ".", "c", "o", "m", "/">>

\* s[p-1:].startswith(lit)
HasAt(s, p, lit) ==
    p + Len(lit) - 1 <= Len(s) /\ SubSeq(s, p, p + Len(lit) - 1) = lit

\* the length of the longest run of characters of C in s from position p
RECURSIVE Run(_, _, _)
Run(s, p, C) ==
    IF p <= Len(s) /\ s[p] \in C THEN 1 + Run(s, p + 1, C) ELSE 0

Min(a, b) == IF a <= b THEN a ELSE b

\* Each regex is the length of its (greedy) match at position p, 0 for none.

\* http[s]?://(?:...)+
url_regex(s, p) ==
    LET k == IF HasAt(s, p, Https) THEN p + Len(Https)
             ELSE IF HasAt(s, p, Http) THEN p + Len(Http) ELSE 0
        r == IF k = 0 THEN 0 ELSE Run(s, k, UrlChars)
    IN  IF r >= 1 THEN (k - p) + r ELSE 0

\* pic\.twitter\.com\/\w+
pic_url_regex(s, p) ==
    LET r == IF HasAt(s, p, PicHost) THEN Run(s, p + Len(PicHost), WordChars) ELSE 0
    IN  IF r >= 1 THEN Len(PicHost) + r ELSE 0

\* (\.( *))+ from position q
RECURSIVE DotGroups(_, _)
DotGroups(s, q) ==
    IF q <= Len(s) /\ s[q] = "."
    THEN LET sp == Run(s, q + 1, {" "})
         IN  1 + sp + DotGroups(s, q + 1 + sp)
    ELSE 0

\* ( *(\.( *))+)
multi_dot_regex(s, p) ==
    LET a == Run(s, p, {" "})
        g == DotGroups(s, p + a)
    IN  IF g >= 1 THEN a + g ELSE 0

\* the length of group 1 of mention_regex at p: \w{1,15}
MentionHandleLen(s, p) ==
    IF p <= Len(s) /\ s[p] = "@" THEN Min(Run(s, p + 1, WordChars), 15) ELSE 0

\* @(\w{1,15})( )*(:)*
mention_regex(s, p) ==
    LET w == MentionHandleLen(s, p)
        sp == Run(s, p + 1 + w, {" "})
        c == Run(s, p + 1 + w + sp, {":"})
    IN  IF w >= 1 THEN 1 + w + sp + c ELSE 0

\* #\w*[a-zA-Z]+\w*
hashtag_regex(s, p) ==
    LET w == IF p <= Len(s) /\ s[p] = "#" THEN Run(s, p + 1, WordChars) ELSE 0
    IN  IF \E j \in (p + 1)..(p + w) : s[j] \in AsciiLetters THEN 1 + w ELSE 0

\* (\s+|\n+)
multi_space_regex(s, p) == Run(s, p, Whitespace)

\* clean_mention(match): the handle with every non-letter turned to a space
clean_mention(g) == [j \in 1..Len(g) |-> IF g[j] \in AsciiLetters THEN g[j] ELSE " "]

MatchLen(re, s, p) ==
    CASE re = "url" -> url_regex(s, p)
      [] re = "pic" -> pic_url_regex(s, p)
      [] re = "dot" -> multi_dot_regex(s, p)
      [] re = "mention" -> mention_regex(s, p)
      [] re = "hashtag" -> hashtag_regex(s, p)
      [] re = "space" -> multi_space_regex(s, p)

\* what clean_line_mod substitutes for the match of re at p
Replacement(re, s, p) ==
    CASE re = "url" -> <<>>
      [] re = "pic" -> <<>>
      [] re = "dot" -> <<" ", ".", " ">>
      [] re = "mention" -> clean_mention(SubSeq(s, p + 1, p + MentionHandleLen(s, p)))
      [] re = "hashtag" -> <<" ">>
      [] re = "space" -> <<" ">>

\* regex.sub(repl, s) from position p on: the leftmost match is replaced and
\* the scan goes on after it (no regex here matches the empty string)
RECURSIVE ReSub(_, _, _)
ReSub(re, s, p) ==
    IF p > Len(s) THEN <<>>
    ELSE LET m == MatchLen(re, s, p)
         IN  IF m > 0 THEN Replacement(re, s, p) \o ReSub(re, s, p + m)
             ELSE <<s[p]>> \o ReSub(re, s, p + 1)

\* if line[:3] == 'RT ': line = line[3:]
StripRTAnywhere(l) ==
    IF \E p \in 1..Len(l) : HasAt(l, p, RTMarker) THEN SubSeq(l, 4, Len(l)) ELSE l
StripRT(l) == IF HasAt(l, 1, RTMarker) THEN SubSeq(l, 4, Len(l)) ELSE l

clean_line_mod(l) ==
    LET c0 == StripRT(l)
        c1 == ReSub("url", c0, 1)
        c2 == ReSub("pic", c1, 1)
        c3 == ReSub("dot", c2, 1)
        c4 == ReSub("mention", c3, 1)
        c5 == ReSub("hashtag", c4, 1)
    IN  ReSub("space", c5, 1)

\* the pieces the model's input strings are made of
Chunks ==
    {RTMarker, Http, PicHost, <<"@">>, <<"#">>, <<".">>, <<" ">>, <<":">>,
     <<"\n">>, <<"a">>, <<"1">>}

RECURSIVE Concat(_)
Concat(qs) == IF qs = <<>> THEN <<>> ELSE Head(qs) \o Concat(Tail(qs))

Inputs == {Concat(q) : q \in SeqsUpTo(Chunks, MaxChunks)}

InitNorm ==
    /\ line \in Inputs
    /\ cleaned = <<>> /\ recleaned = <<>> /\ npc = "raw"
    /\ src = <<>> /\ tokens_min = DefaultTokensMin
    /\ pos = 0 /\ gen = "suspended"
    /\ files = [f \in FileNames |-> NoFile]
    /\ pc = "off" /\ split = 1
    /\ f_out = Closed /\ file_path = SmlFile(1) /\ num_tokens = None /\ mode = "w"
    /\ total_num_tokens = 0 /\ i = 0 /\ cnt = 0
    /\ summary = NoSummary
    /\ written = <<>> /\ consumed = <<>> /\ openContent = <<>>

driverVars == <<src, tokens_min, pos, gen, files, pc, split, passVars, summary, histVars>>

\* text = clean_line_mod(text)
CleanOnce ==
    /\ npc = "raw"
    /\ cleaned' = clean_line_mod(line)
    /\ npc' = "once"
    /\ UNCHANGED <<line, recleaned, driverVars>>

\* the normaliser run again on its own output
CleanTwice ==
    /\ npc = "once"
    /\ recleaned' = clean_line_mod(cleaned)
    /\ npc' = "twice"
    /\ UNCHANGED <<line, cleaned, driverVars>>

NextNorm ==
    \/ CleanOnce
    \/ CleanTwice

SpecNorm == InitNorm /\ [][NextNorm]_vars

----------------------------------------------------------------------------
(* Helpers of the properties *)

Range(q) == {q[k] : k \in DOMAIN q}

RECURSIVE Flatten(_)
Flatten(qs) == IF qs = <<>> THEN <<>> ELSE Head(qs) \o Flatten(Tail(qs))

IsPrefix(a, b) == Len(a) <= Len(b) /\ SubSeq(b, 1, Len(a)) = a

Increasing(q) == \A a, b \in DOMAIN q : a < b => q[a] < q[b]

Occurrences(q, x) == Cardinality({k \in DOMAIN q : q[k] = x})

\* the number of non-empty tokens of record k, counted on its own
NonEmptyCount(k) == Cardinality({j \in DOMAIN src[k].tokens : src[k].tokens[j] # ""})

\* record k meets the minimum-token threshold
MeetsThreshold(k) == src[k].wellformed /\ NonEmptyCount(k) + 1 >= tokens_min

WellFormedSrc == \A k \in DOMAIN src : src[k].wellformed

----------------------------------------------------------------------------
(* C2: the records are read through one forward-only cursor shared by the
   passes: taken together, in pass order, the passes consumed exactly the
   records 1..pos, each once and in order (so a pass starts right after the
   last record of the pass before it), and no record is in two of the
   small-tier train, valid and test files. *)
C2_ForwardOnlyCursor ==
    /\ Flatten(consumed) = [k \in 1..pos |-> k]
    /\ \A a, b \in 1..3 :
         a # b => Range(files[SmlFile(a)].lines) \cap Range(files[SmlFile(b)].lines) = {}

C2_Witness ==
    /\ pc = "done"
    /\ Len(consumed) = 5
    /\ \A p \in 1..5 : consumed[p] # <<>>
    /\ \A s \in 1..3 : files[SmlFile(s)].lines # <<>>

(* C3: when main completes, the valid and test files are the same in the
   three tiers, the small train file is a prefix of the large train file,
   and the large train file is a prefix of the all train file. *)
C3_TiersShareSmall ==
    pc = "done" =>
      /\ \A s \in 2..3 :
           /\ files[SmlFile(s)].exists
           /\ files[LrgFile(s)] = files[SmlFile(s)]
           /\ files[AllFile(s)] = files[SmlFile(s)]
      /\ \A t \in Tiers : files[<<t, "train">>].exists
      /\ IsPrefix(files[SmlFile(1)].lines, files[LrgFile(1)].lines)
      /\ IsPrefix(files[LrgFile(1)].lines, files[AllFile(1)].lines)

C3_Witness ==
    /\ pc = "done"
    /\ files[SmlFile(1)].lines # <<>>
    /\ files[SmlFile(2)].lines # <<>>
    /\ files[SmlFile(3)].lines # <<>>
    /\ Len(files[LrgFile(1)].lines) > Len(files[SmlFile(1)].lines)
    /\ Len(files[AllFile(1)].lines) > Len(files[LrgFile(1)].lines)

(* C6: once a record that cannot be parsed has been read, the run has
   aborted at that record: it is the first malformed record and the last
   record read, the destination of the pass is closed and holds what it held
   when opened followed by exactly the records the pass accepted before the
   failure, no later record is in any file, and main does nothing more. *)
C6_AbortOnParseFailure ==
    (\E k \in 1..pos : ~src[k].wellformed) =>
      /\ pc = "failed"
      /\ f_out = Closed
      /\ ~src[pos].wellformed
      /\ \A k \in 1..(pos - 1) : src[k].wellformed
      /\ written = SelectSeq(consumed[Len(consumed)], MeetsThreshold)
      /\ files[file_path].lines = openContent \o written
      /\ \A f \in FileNames : \A k \in Range(files[f].lines) : k < pos
      /\ ~ENABLED Next

C6_Witness ==
    /\ pc = "failed"
    /\ written # <<>>
    /\ openContent # <<>>
    /\ pos < Len(src)

\* the final state C10 describes
C10_DoneOK ==
    /\ pc = "done"
    /\ f_out = Closed
    /\ gen = "finished"
    /\ pos = Len(src)
    /\ \A k \in DOMAIN src :
         Occurrences(files[AllFile(1)].lines \o files[AllFile(2)].lines
                       \o files[AllFile(3)].lines, k)
           = IF MeetsThreshold(k) THEN 1 ELSE 0
    /\ \A s \in 1..3 : Increasing(files[AllFile(s)].lines)

\* a pass that finds text_iter exhausted at its first step has written nothing
C10_LatePassWritesNothing ==
    (InPass /\ cnt = 0 /\ ~HasNext) =>
       written = <<>> /\ files[f_out].lines = openContent

(* C10: on a well-formed source main terminates with the source exhausted,
   every record meeting the threshold is exactly once in the all-tier train,
   valid and test files, no other record is in them, each file lists its
   records in source order; a pass that starts on an exhausted source
   writes nothing. *)
C10_DrainsSource ==
    /\ [](C10_LatePassWritesNothing)
    /\ (WellFormedSrc ~> C10_DoneOK)

C10_Witness ==
    /\ C10_DoneOK
    /\ WellFormedSrc
    /\ Len(files[AllFile(1)].lines) > Len(files[LrgFile(1)].lines)
    /\ \E k \in DOMAIN src : ~MeetsThreshold(k)

----------------------------------------------------------------------------
(* Properties of one write pass *)

\* what record k adds to the running total when written: its accounted
\* token count (non-empty tokens + 1), plus 1
Contribution(k) == (NonEmptyCount(k) + 1) + 1

RECURSIVE SumContributions(_)
SumContributions(q) ==
    IF q = <<>> THEN 0 ELSE Contribution(Head(q)) + SumContributions(Tail(q))

MaxContribution(q) ==
    CHOOSE m \in {Contribution(q[k]) : k \in DOMAIN q} :
        \A k \in DOMAIN q : Contribution(q[k]) <= m

\* a bounded pass has returned through the break of line 111
EndedByBudget ==
    /\ pc = "done" /\ f_out = Closed
    /\ gen = "suspended"
    /\ num_tokens # None
    /\ written # <<>>

(* C1, as stated: a bounded pass that ends before the source is exhausted
   ends with a total T such that B <= T < B + M, M the largest amount a
   written record added. *)
C1_Original ==
    EndedByBudget =>
      /\ total_num_tokens >= num_tokens[1]
      /\ total_num_tokens < num_tokens[1] + MaxContribution(written)

(* C1, amended: a bounded pass that ends before the source is exhausted ends
   with a total T such that B < T <= B + M. *)
C1_BudgetBounds ==
    EndedByBudget =>
      /\ total_num_tokens > num_tokens[1]
      /\ total_num_tokens <= num_tokens[1] + MaxContribution(written)

C1_Witness ==
    /\ EndedByBudget
    /\ Len(written) >= 2
    /\ total_num_tokens = num_tokens[1] + MaxContribution(written)

ScenarioDone ==
    /\ src = ScenarioSrc
    /\ tokens_min = DefaultTokensMin
    /\ num_tokens = ScenarioBudget
    /\ pc = "done"

(* C4, as stated: on the records of accounted lengths 12, 5, 20, 8, 15 with
   threshold 10 and budget 30, the pass writes the records of length 12, 20
   and 15 and stops after exactly 3 records written. *)
C4_Original ==
    ScenarioDone => written = <<1, 3, 5>>

(* C4, amended: on that input the pass writes the record of length 12,
   rejects the one of length 5, writes the one of length 20 and stops there
   by the budget, after exactly 2 records written and a total of 34; the
   records of length 8 and 15 are not read. *)
C4_ScenarioStopsAfterTwo ==
    ScenarioDone =>
      /\ written = <<1, 3>>
      /\ consumed = <<(<<1, 2, 3>>)>>
      /\ total_num_tokens = 34
      /\ gen = "suspended" /\ pos = 3
      /\ files[file_path].lines = openContent \o <<1, 3>>

C4_Witness ==
    ScenarioDone /\ Len(written) = 2

(* C5: at every point of a write pass the running total is the sum over the
   records written so far of (accounted token count + 1), the accounted
   count being the number of non-empty tokens + 1; the records written are
   exactly the records read whose accounted count is at least the threshold
   (equal included), in order, and they are what the pass added to the
   destination. *)
C5_RunningTotal ==
    consumed # <<>> =>
      /\ total_num_tokens = SumContributions(written)
      /\ written = SelectSeq(consumed[Len(consumed)], MeetsThreshold)
      /\ files[file_path].lines = openContent \o written

C5_Witness ==
    /\ InPass
    /\ Len(written) >= 2
    /\ \E k \in Range(written) : NonEmptyCount(k) + 1 = tokens_min
    /\ \E k \in Range(consumed[Len(consumed)]) : NonEmptyCount(k) + 1 < tokens_min

(* C9: the summary of a completed pass gives the number of records the pass
   wrote and its final running total. *)
C9_SummaryCounts ==
    summary # NoSummary =>
      /\ summary.documents = Len(written)
      /\ summary.tokens = total_num_tokens

----------------------------------------------------------------------------
(* Properties of the normaliser *)

Chars(s) == {s[k] : k \in DOMAIN s}

(* C7, as stated: clean_line_mod applied to its own output changes nothing. *)
C7_Original ==
    npc = "twice" => recleaned = cleaned

\* inputs without '@', '#' or '/' and with no whitespace but the space
MarkerFree(s) == Chars(s) \cap ({"@", "#", "/"} \cup (Whitespace \ {" "})) = {}

(* C7, amended: clean_line_mod applied to its own output changes nothing
   when the input holds no '@', '#' or '/' and no whitespace other than
   spaces, and the output does not itself begin with 'RT '. *)
C7_IdempotentOnPlainText ==
    (npc = "twice" /\ MarkerFree(line) /\ ~HasAt(cleaned, 1, RTMarker)) =>
        recleaned = cleaned

C7_Witness ==
    /\ npc = "twice"
    /\ MarkerFree(line)
    /\ HasAt(line, 1, RTMarker)
    /\ "." \in Chars(line)
    /\ ~HasAt(cleaned, 1, RTMarker)
    /\ cleaned # line
    /\ recleaned = cleaned

\* the words of s: its maximal runs of characters other than the space
Words(s) ==
    {SubSeq(s, a, b) : <<a, b>> \in
       {ab \in (1..Len(s)) \X (1..Len(s)) :
          /\ ab[1] <= ab[2]
          /\ \A k \in ab[1]..ab[2] : s[k] # " "
          /\ (ab[1] = 1 \/ s[ab[1] - 1] = " ")
          /\ (ab[2] = Len(s) \/ s[ab[2] + 1] = " ")}}

\* inputs made of words, spaces, colons and mention markers only
MentionsAndWords(s) == Chars(s) \subseteq (WordChars \cup {"@", " ", ":"})

(* C8: for an input with a mention marker, '@' followed by a handle of 1 to
   15 word characters, the output holds the complete handle as a word of
   its own. *)
C8_HandleKept ==
    (npc = "once" /\ MentionsAndWords(line) /\ ~HasAt(line, 1, RTMarker)) =>
       \A p \in 1..Len(line) :
          (line[p] = "@" /\ Run(line, p + 1, WordChars) \in 1..15) =>
             SubSeq(line, p + 1, p + Run(line, p + 1, WordChars)) \in Words(cleaned)

====
